---- MODULE Spec2Model ----
(***************************************************************************)
(* A model of src/vc_demo/agent.py: the voice-agent session controller     *)
(* (entrypoint), the polling task that binds the user final-transcript     *)
(* handler, the four pipeline event handlers, the transcript enhancer and  *)
(* the transcript writer.                                                  *)
(*                                                                         *)
(* Strings are sequences of characters over a two-letter alphabet (a       *)
(* blank and a letter), so that str.strip() and string concatenation are   *)
(* modelled by what they do.                                               *)
(***************************************************************************)
EXTENDS Integers, Sequences, FiniteSets, TLC

\* ------------------------------------------------------------------ bounds
MaxLen == 2        \* longest string carried by an event payload
MaxItems == 1      \* longest list carried as a ChatMessage content
MaxProbeLen == 4   \* longest string handed to the normalization on its own
MaxLog == 2        \* the handlers stop being exercised at this log length

\* ----------------------------------------------------------------- strings
Alphabet == {" ", "a"}

StringsOf(n) == UNION {[1..k -> Alphabet] : k \in 0..n}

Strings == StringsOf(MaxLen)

IsSpace(c) == c = " "

\* str.lstrip() / str.rstrip() / str.strip() on whitespace
RECURSIVE LStrip(_)
LStrip(s) == IF s # <<>> /\ IsSpace(Head(s)) THEN LStrip(Tail(s)) ELSE s

RECURSIVE RStrip(_)
RStrip(s) ==
    IF s # <<>> /\ IsSpace(s[Len(s)]) THEN RStrip(SubSeq(s, 1, Len(s) - 1)) ELSE s

Strip(s) == RStrip(LStrip(s))

\* the literal " [interrupted]": a blank followed by the bracketed word
InterruptedSuffix == <<" ", "[interrupted]">>

\* ---------------------------------------------------------- event payloads
\* an element of a list content: a str, or something that is not a str
NotAStr == [isstr |-> FALSE, val |-> <<>>]

Items == [isstr : {TRUE}, val : Strings] \cup {NotAStr}

\* lists of up to MaxItems elements: any first element, then anything (the
\* handlers read the first element only)
ItemLists ==
    {<<>>} \cup
    {<<first>> \o [i \in 1..k |-> NotAStr] : first \in Items, k \in 0..(MaxItems - 1)}

\* ChatMessage.content: a str, a list, or anything else (None, a dict, ...)
Contents ==
    [type : {"str"}, val : Strings, items : {<<>>}]
    \cup [type : {"list"}, val : {<<>>}, items : ItemLists]
    \cup {[type |-> "other", val |-> <<>>, items |-> <<>>]}

NoContent == [type |-> "other", val |-> <<>>, items |-> <<>>]

\* a speech alternative: without a text attribute, with text None, or with a str
Alternatives ==
    [has_text : {TRUE}, is_none : {FALSE}, text : Strings]
    \cup {[has_text |-> TRUE, is_none |-> TRUE, text |-> <<>>],
          [has_text |-> FALSE, is_none |-> FALSE, text |-> <<>>]}

\* a SpeechEvent: without an alternatives attribute, or with a list of them
SpeechEvents ==
    [has_alternatives : {TRUE}, alternatives : UNION {[1..k -> Alternatives] : k \in 0..1}]
    \cup {[has_alternatives |-> FALSE, alternatives |-> <<>>]}

\* what the text-completion service would answer to one request: a failure,
\* or a completion (empty, blank or a word)
Replies ==
    [ok : {TRUE}, content : {<<>>, <<" ">>, <<"a">>}]
    \cup {[ok |-> FALSE, content |-> <<>>]}

NoReply == [ok |-> FALSE, content |-> <<>>]

\* outcomes of open(..., "w") followed by json.dump
WriteOutcomes == {"ok", "open_fails", "dump_fails"}

\* ------------------------------------------------------- pure computations
\* agent.py:70-77, the transcript computed by handle_agent_transcript
transcript_committed(content) ==
    IF content.type = "str" THEN Strip(content.val)
    ELSE IF content.type = "list" /\ content.items # <<>>
         THEN IF content.items[1].isstr THEN Strip(content.items[1].val) ELSE <<>>
         ELSE <<>>

\* variant of transcript_interrupted: the first element of a list is not trimmed
transcript_interrupted_untrimmed(content) ==
    IF content.type = "str" THEN Strip(content.val)
    ELSE IF content.type = "list" /\ content.items # <<>>
         THEN IF content.items[1].isstr THEN content.items[1].val ELSE <<>>
         ELSE <<>>

\* agent.py:87-93, the transcript computed by handle_agent_interrupted
transcript_interrupted(content) ==
    IF content.type = "str" THEN Strip(content.val)
    ELSE IF content.type = "list" /\ content.items # <<>>
         THEN IF content.items[1].isstr THEN Strip(content.items[1].val) ELSE <<>>
         ELSE <<>>

\* agent.py:103-106, the transcript computed by handle_final_transcript
transcript_final(data) ==
    IF data.has_alternatives /\ data.alternatives # <<>>
    THEN LET alt == data.alternatives[1]
         IN  IF alt.has_text /\ ~alt.is_none /\ alt.text # <<>> THEN Strip(alt.text) ELSE <<>>
    ELSE <<>>

\* agent.py:4 imports the OpenAI client as `openai`; agent.py:16 rebinds the
\* same name to livekit.plugins.openai, which has no ChatCompletion attribute.
OpenaiHasChatCompletion == FALSE

\* variant of enhance_transcript: the lookup succeeds and the service is asked
enhance_transcript_service(text, reply) ==
    IF reply.ok THEN reply.content ELSE text

\* agent.py:138-151.  The attribute lookup at line 141 raises inside the try,
\* so the except branch returns the input; the service is never asked.
enhance_transcript(text, reply) ==
    IF ~OpenaiHasChatCompletion THEN text
    ELSE IF reply.ok THEN reply.content
    ELSE text

\* a log entry; the timestamp is always the empty string
Entry(role, text) == [role |-> role, timestamp |-> <<>>, text |-> text]

\* json.dump(conversation_log, f, indent=4): one object per entry, in order
JsonDump(log) ==
    [i \in 1..Len(log) |->
        [role |-> log[i].role, timestamp |-> log[i].timestamp, text |-> log[i].text]]

\* ------------------------------------------------------------------- state
VARIABLES
    lifecycle,          \* where entrypoint is
    outcome,            \* how entrypoint ended: "none", "normal", "error", "cancelled"
    cancel_requested,   \* the cancellation signal has been sent
    participant,        \* wait_for_participant has returned
    handlers,           \* events that have a handler registered on the agent
    started,            \* agent.start has been called
    greeting,           \* agent.say: "none", "issued" (called), "done" (returned)
    human_input,        \* agent._human_input is not None
    poll,               \* where the attach_user_final_handler task is
    final_handlers,     \* handlers bound to human_input's final_transcript
    conversation_log,   \* the module-level list
    pending,            \* handle_final_transcript inside enhance_transcript
    enhance_calls,      \* calls of enhance_transcript so far
    usage,              \* usage_collector has collected some metrics
    file,               \* conversation_log.json
    flush_attempts,     \* calls of save_transcript so far
    write_result,       \* how the write of save_transcript went, "none" before it
    last,               \* the event handled last
    emitted,            \* the events with a non-empty text, as the pipeline emitted them
    probe               \* a content handed to the normalization on its own

vars == <<lifecycle, outcome, cancel_requested, participant, handlers, started,
          greeting, human_input, poll, final_handlers, conversation_log, pending,
          enhance_calls, usage, file, flush_attempts, write_result, last,
          emitted, probe>>

sessionVars == <<lifecycle, outcome, participant, handlers, started, greeting>>

NoPending == [active |-> FALSE, text |-> <<>>]

NoEvent == [kind |-> "none", text |-> <<>>, reply |-> NoReply]

\* a transcript left behind by an earlier run
PreviousFile == [state |-> "complete", doc |-> <<Entry("user", <<"a">>)>>]

Init ==
    /\ lifecycle = "Connecting"
    /\ outcome = "none"
    /\ cancel_requested = FALSE
    /\ participant = FALSE
    /\ handlers = {}
    /\ started = FALSE
    /\ greeting = "none"
    /\ human_input = FALSE
    /\ poll = "none"
    /\ final_handlers = 0
    /\ conversation_log = <<>>
    /\ pending = NoPending
    /\ enhance_calls = 0
    /\ usage = FALSE
    /\ file = PreviousFile
    /\ flush_attempts = 0
    /\ write_result = "none"
    /\ last = NoEvent
    /\ emitted = <<>>
    /\ probe = NoContent

\* the single thread is not inside a synchronous call
EventLoopFree == ~pending.active /\ lifecycle # "Flushing"

\* the pipeline emits events from start until the session is over
PipelineLive == started /\ lifecycle \in {"PipelineStarting", "Running"}

\* --------------------------------------------------------------- entrypoint
\* variant of Connect: a failed connection is swallowed and the session goes on
Connect_swallows(ok) ==
    /\ lifecycle = "Connecting"
    /\ ~cancel_requested
    /\ lifecycle' = "WaitingForParticipant"
    /\ outcome' = IF ok THEN outcome ELSE "error"
    /\ UNCHANGED <<cancel_requested, participant, handlers, started, greeting,
                   human_input, poll, final_handlers, conversation_log, pending,
                   enhance_calls, usage, file, flush_attempts, write_result, last,
                   emitted, probe>>

\* agent.py:45-46, await ctx.connect(...): it returns, or it raises and the
\* exception leaves entrypoint
Connect(ok) ==
    /\ lifecycle = "Connecting"
    /\ ~cancel_requested
    /\ IF ok
       THEN /\ lifecycle' = "WaitingForParticipant"
            /\ outcome' = outcome
       ELSE /\ lifecycle' = "Terminated"
            /\ outcome' = "error"
    /\ UNCHANGED <<cancel_requested, participant, handlers, started, greeting,
                   human_input, poll, final_handlers, conversation_log, pending,
                   enhance_calls, usage, file, flush_attempts, write_result, last,
                   emitted, probe>>

\* variant of ParticipantJoined: agent.start is left out before the greeting
ParticipantJoined_no_start ==
    /\ lifecycle = "WaitingForParticipant"
    /\ ~cancel_requested
    /\ participant' = TRUE
    /\ handlers' = {"agent_speech_committed", "agent_speech_interrupted", "metrics_collected"}
    /\ poll' = "checking"
    /\ greeting' = "issued"
    /\ lifecycle' = "PipelineStarting"
    /\ UNCHANGED <<outcome, cancel_requested, started, human_input, final_handlers,
                   conversation_log, pending, enhance_calls, usage, file,
                   flush_attempts, write_result, last,
                   emitted, probe>>

\* agent.py:49-127, wait_for_participant returns: the agent is constructed,
\* the three agent handlers are registered, the polling task is created, the
\* agent is started and entrypoint suspends in agent.say
ParticipantJoined ==
    /\ lifecycle = "WaitingForParticipant"
    /\ ~cancel_requested
    /\ participant' = TRUE
    /\ handlers' = {"agent_speech_committed", "agent_speech_interrupted", "metrics_collected"}
    /\ poll' = "checking"
    /\ started' = TRUE
    /\ greeting' = "issued"
    /\ lifecycle' = "PipelineStarting"
    /\ UNCHANGED <<outcome, cancel_requested, human_input, final_handlers,
                   conversation_log, pending, enhance_calls, usage, file,
                   flush_attempts, write_result, last,
                   emitted, probe>>

\* agent.py:127-132, agent.say returns and entrypoint enters the idle loop
GreetingDone ==
    /\ lifecycle = "PipelineStarting"
    /\ ~cancel_requested
    /\ EventLoopFree
    /\ greeting' = "done"
    /\ lifecycle' = "Running"
    /\ UNCHANGED <<outcome, cancel_requested, participant, handlers, started,
                   human_input, poll, final_handlers, conversation_log, pending,
                   enhance_calls, usage, file, flush_attempts, write_result, last,
                   emitted, probe>>

\* the external cancellation signal: the entrypoint task is cancelled once
RequestCancel ==
    /\ lifecycle \notin {"Flushing", "Terminated"}
    /\ ~cancel_requested
    /\ EventLoopFree
    /\ cancel_requested' = TRUE
    /\ UNCHANGED <<lifecycle, outcome, participant, handlers, started, greeting,
                   human_input, poll, final_handlers, conversation_log, pending,
                   enhance_calls, usage, file, flush_attempts, write_result, last,
                   emitted, probe>>

\* agent.py:46, 49, 127: CancelledError is raised at an await outside the
\* try statement and leaves entrypoint
CancelBeforeRunning ==
    /\ lifecycle \in {"Connecting", "WaitingForParticipant", "PipelineStarting"}
    /\ cancel_requested
    /\ EventLoopFree
    /\ lifecycle' = "Terminated"
    /\ outcome' = "cancelled"
    /\ UNCHANGED <<cancel_requested, participant, handlers, started, greeting,
                   human_input, poll, final_handlers, conversation_log, pending,
                   enhance_calls, usage, file, flush_attempts, write_result, last,
                   emitted, probe>>

\* variant of CancelRunning: the idle loop is not inside a try/finally
CancelRunning_no_finally ==
    /\ lifecycle = "Running"
    /\ cancel_requested
    /\ EventLoopFree
    /\ lifecycle' = "Terminated"
    /\ outcome' = "cancelled"
    /\ UNCHANGED <<cancel_requested, participant, handlers, started, greeting,
                   human_input, poll, final_handlers, conversation_log, pending,
                   enhance_calls, usage, file, flush_attempts, write_result, last,
                   emitted, probe>>

\* agent.py:130-135: CancelledError is raised at the sleep of the idle loop,
\* is caught, and the finally clause is entered
CancelRunning ==
    /\ lifecycle = "Running"
    /\ cancel_requested
    /\ EventLoopFree
    /\ lifecycle' = "Flushing"
    /\ UNCHANGED <<outcome, cancel_requested, participant, handlers, started,
                   greeting, human_input, poll, final_handlers, conversation_log,
                   pending, enhance_calls, usage, file, flush_attempts, write_result, last,
                   emitted, probe>>

\* variant of WrittenFile: the file is opened for appending
WrittenFile_appends(log, result) ==
    IF result = "open_fails" THEN file
    ELSE IF result = "dump_fails"
         THEN [state |-> "partial", doc |-> <<>>]
         ELSE [state |-> "complete", doc |-> file.doc \o JsonDump(log)]

\* what conversation_log.json holds after open(..., "w") and json.dump: the
\* old content when open fails, the whole array when both succeed, and a
\* truncated file holding an unterminated prefix of the text, from which no
\* array can be read, when json.dump fails after open
WrittenFile(log, result) ==
    IF result = "open_fails" THEN file
    ELSE IF result = "dump_fails"
         THEN [state |-> "partial", doc |-> <<>>]
         ELSE [state |-> "complete", doc |-> JsonDump(log)]

\* variant of save_transcript: an exception of the write is not caught
save_transcript_propagates(result) ==
    /\ lifecycle = "Flushing"
    /\ flush_attempts' = flush_attempts + 1
    /\ write_result' = result
    /\ file' = WrittenFile(conversation_log, result)
    /\ lifecycle' = "Terminated"
    /\ outcome' = IF result = "ok" THEN "normal" ELSE "error"
    /\ UNCHANGED <<cancel_requested, participant, handlers, started, greeting,
                   human_input, poll, final_handlers, conversation_log, pending,
                   enhance_calls, usage, last,
                   emitted, probe>>

\* agent.py:136 and 153-160: save_transcript runs in the finally clause,
\* swallows any exception of the write, and entrypoint returns
save_transcript(result) ==
    /\ lifecycle = "Flushing"
    /\ flush_attempts' = flush_attempts + 1
    /\ write_result' = result
    /\ file' = WrittenFile(conversation_log, result)
    /\ lifecycle' = "Terminated"
    /\ outcome' = "normal"
    /\ UNCHANGED <<cancel_requested, participant, handlers, started, greeting,
                   human_input, poll, final_handlers, conversation_log, pending,
                   enhance_calls, usage, last,
                   emitted, probe>>

\* ----------------------------------------------------------- polling task
\* the pipeline creates its human-input object some time after start
HumanInputReady ==
    /\ started
    /\ ~human_input
    /\ EventLoopFree
    /\ human_input' = TRUE
    /\ UNCHANGED <<sessionVars, cancel_requested, poll, final_handlers,
                   conversation_log, pending, enhance_calls, usage, file,
                   flush_attempts, write_result, last,
                   emitted, probe>>

\* variant of PollCheck: the handler is bound without waiting for human_input
PollCheck_eager ==
    /\ poll = "checking"
    /\ EventLoopFree
    /\ final_handlers' = final_handlers + 1
    /\ poll' = "done"
    /\ UNCHANGED <<sessionVars, cancel_requested, human_input, conversation_log,
                   pending, enhance_calls, usage, file, flush_attempts, write_result, last,
                   emitted, probe>>

\* variant of PollCheck: one look at human_input and no retry
PollCheck_gives_up ==
    /\ poll = "checking"
    /\ EventLoopFree
    /\ final_handlers' = IF human_input THEN final_handlers + 1 ELSE final_handlers
    /\ poll' = "done"
    /\ UNCHANGED <<sessionVars, cancel_requested, human_input, conversation_log,
                   pending, enhance_calls, usage, file, flush_attempts, write_result, last,
                   emitted, probe>>

\* agent.py:30-33, one evaluation of the loop condition: sleep, or leave the
\* loop and bind the handler
PollCheck ==
    /\ poll = "checking"
    /\ EventLoopFree
    /\ IF human_input
       THEN /\ final_handlers' = final_handlers + 1
            /\ poll' = "done"
       ELSE /\ final_handlers' = final_handlers
            /\ poll' = "sleeping"
    /\ UNCHANGED <<sessionVars, cancel_requested, human_input, conversation_log,
                   pending, enhance_calls, usage, file, flush_attempts, write_result, last,
                   emitted, probe>>

\* agent.py:31, asyncio.sleep(0.5) returns
PollWake ==
    /\ poll = "sleeping"
    /\ EventLoopFree
    /\ poll' = "checking"
    /\ UNCHANGED <<sessionVars, cancel_requested, human_input, final_handlers,
                   conversation_log, pending, enhance_calls, usage, file,
                   flush_attempts, write_result, last,
                   emitted, probe>>

\* ---------------------------------------------------------- event handlers
\* variant of handle_agent_transcript: the handler also runs while the user
\* handler is inside the enhancer
handle_agent_transcript_reentrant(content) ==
    /\ PipelineLive
    /\ lifecycle # "Flushing"
    /\ "agent_speech_committed" \in handlers
    /\ Len(conversation_log) < MaxLog
    /\ LET transcript == transcript_committed(content)
       IN  /\ conversation_log' =
                 IF transcript # <<>>
                 THEN Append(conversation_log, Entry("assistant", transcript))
                 ELSE conversation_log
           /\ emitted' = IF transcript # <<>>
                         THEN Append(emitted, [kind |-> "committed", text |-> transcript])
                         ELSE emitted
           /\ last' = [kind |-> "committed", text |-> transcript, reply |-> NoReply]
    /\ UNCHANGED <<sessionVars, cancel_requested, human_input, poll, final_handlers,
                   pending, enhance_calls, usage, file, flush_attempts, write_result,
                   probe>>

\* variant of handle_agent_transcript: the suffix of the interrupted handler
\* is appended here too
handle_agent_transcript_suffixed(content) ==
    /\ PipelineLive
    /\ EventLoopFree
    /\ "agent_speech_committed" \in handlers
    /\ Len(conversation_log) < MaxLog
    /\ LET transcript == transcript_committed(content)
       IN  /\ conversation_log' =
                 IF transcript # <<>>
                 THEN Append(conversation_log,
                             Entry("assistant", transcript \o InterruptedSuffix))
                 ELSE conversation_log
           /\ emitted' = IF transcript # <<>>
                         THEN Append(emitted, [kind |-> "committed", text |-> transcript])
                         ELSE emitted
           /\ last' = [kind |-> "committed", text |-> transcript, reply |-> NoReply]
    /\ UNCHANGED <<sessionVars, cancel_requested, human_input, poll, final_handlers,
                   pending, enhance_calls, usage, file, flush_attempts, write_result,
                   probe>>

\* agent.py:67-83
handle_agent_transcript(content) ==
    /\ PipelineLive
    /\ EventLoopFree
    /\ "agent_speech_committed" \in handlers
    /\ Len(conversation_log) < MaxLog
    /\ LET transcript == transcript_committed(content)
       IN  /\ conversation_log' =
                 IF transcript # <<>>
                 THEN Append(conversation_log, Entry("assistant", transcript))
                 ELSE conversation_log
           /\ emitted' = IF transcript # <<>>
                         THEN Append(emitted, [kind |-> "committed", text |-> transcript])
                         ELSE emitted
           /\ last' = [kind |-> "committed", text |-> transcript, reply |-> NoReply]
    /\ UNCHANGED <<sessionVars, cancel_requested, human_input, poll, final_handlers,
                   pending, enhance_calls, usage, file, flush_attempts, write_result,
                   probe>>

\* variant of handle_agent_interrupted: the entry is inserted at the front
handle_agent_interrupted_prepends(content) ==
    /\ PipelineLive
    /\ EventLoopFree
    /\ "agent_speech_interrupted" \in handlers
    /\ Len(conversation_log) < MaxLog
    /\ LET transcript == transcript_interrupted(content)
       IN  /\ conversation_log' =
                 IF transcript # <<>>
                 THEN <<Entry("assistant", transcript \o InterruptedSuffix)>>
                         \o conversation_log
                 ELSE conversation_log
           /\ emitted' = IF transcript # <<>>
                         THEN Append(emitted, [kind |-> "interrupted", text |-> transcript])
                         ELSE emitted
           /\ last' = [kind |-> "interrupted", text |-> transcript, reply |-> NoReply]
    /\ UNCHANGED <<sessionVars, cancel_requested, human_input, poll, final_handlers,
                   pending, enhance_calls, usage, file, flush_attempts, write_result,
                   probe>>

\* agent.py:85-98
handle_agent_interrupted(content) ==
    /\ PipelineLive
    /\ EventLoopFree
    /\ "agent_speech_interrupted" \in handlers
    /\ Len(conversation_log) < MaxLog
    /\ LET transcript == transcript_interrupted(content)
       IN  /\ conversation_log' =
                 IF transcript # <<>>
                 THEN Append(conversation_log,
                             Entry("assistant", transcript \o InterruptedSuffix))
                 ELSE conversation_log
           /\ emitted' = IF transcript # <<>>
                         THEN Append(emitted, [kind |-> "interrupted", text |-> transcript])
                         ELSE emitted
           /\ last' = [kind |-> "interrupted", text |-> transcript, reply |-> NoReply]
    /\ UNCHANGED <<sessionVars, cancel_requested, human_input, poll, final_handlers,
                   pending, enhance_calls, usage, file, flush_attempts, write_result,
                   probe>>

\* variant of FinalTranscriptUnheard: the transcript is logged although no
\* handler is bound
FinalTranscriptUnheard_logged(data) ==
    /\ PipelineLive
    /\ EventLoopFree
    /\ human_input
    /\ final_handlers = 0
    /\ Len(conversation_log) < MaxLog
    /\ LET transcript == transcript_final(data)
       IN  /\ conversation_log' =
                 IF transcript # <<>>
                 THEN Append(conversation_log, Entry("user", transcript))
                 ELSE conversation_log
           /\ emitted' = IF transcript # <<>>
                         THEN Append(emitted, [kind |-> "final", text |-> transcript])
                         ELSE emitted
           /\ last' = [kind |-> "final_unheard", text |-> transcript, reply |-> NoReply]
    /\ UNCHANGED <<sessionVars, cancel_requested, human_input, poll, final_handlers,
                   pending, enhance_calls, usage, file, flush_attempts, write_result,
                   probe>>

\* a final transcript emitted while no handler is bound reaches nobody
FinalTranscriptUnheard(data) ==
    /\ PipelineLive
    /\ EventLoopFree
    /\ human_input
    /\ final_handlers = 0
    /\ last' = [kind |-> "final_unheard", text |-> transcript_final(data),
                reply |-> NoReply]
    /\ UNCHANGED <<sessionVars, cancel_requested, human_input, poll, final_handlers,
                   conversation_log, pending, enhance_calls, usage, file,
                   flush_attempts, write_result,
                   emitted, probe>>

\* variant of handle_final_transcript: the transcript is not tested before
\* it is enhanced and logged
handle_final_transcript_unchecked(data) ==
    /\ PipelineLive
    /\ EventLoopFree
    /\ final_handlers > 0
    /\ Len(conversation_log) < MaxLog
    /\ LET transcript == transcript_final(data)
       IN  /\ pending' = [active |-> TRUE, text |-> transcript]
           /\ enhance_calls' = enhance_calls + 1
           /\ emitted' = IF transcript # <<>>
                         THEN Append(emitted, [kind |-> "final", text |-> transcript])
                         ELSE emitted
           /\ last' = [kind |-> "final", text |-> transcript, reply |-> NoReply]
    /\ UNCHANGED <<sessionVars, cancel_requested, human_input, poll, final_handlers,
                   conversation_log, usage, file, flush_attempts, write_result,
                   probe>>

\* agent.py:101-110, handle_final_transcript up to the call of
\* enhance_transcript, which blocks the thread
handle_final_transcript(data) ==
    /\ PipelineLive
    /\ EventLoopFree
    /\ final_handlers > 0
    /\ Len(conversation_log) < MaxLog
    /\ LET transcript == transcript_final(data)
       IN  /\ pending' = IF transcript # <<>>
                         THEN [active |-> TRUE, text |-> transcript]
                         ELSE pending
           /\ enhance_calls' = IF transcript # <<>> THEN enhance_calls + 1
                               ELSE enhance_calls
           /\ emitted' = IF transcript # <<>>
                         THEN Append(emitted, [kind |-> "final", text |-> transcript])
                         ELSE emitted
           /\ last' = [kind |-> "final", text |-> transcript, reply |-> NoReply]
    /\ UNCHANGED <<sessionVars, cancel_requested, human_input, poll, final_handlers,
                   conversation_log, usage, file, flush_attempts, write_result,
                   probe>>

\* variant of append_enhanced: a failed enhancement is tried a second time
append_enhanced_retries(reply) ==
    /\ pending.active
    /\ conversation_log' =
          Append(conversation_log, Entry("user", enhance_transcript(pending.text, reply)))
    /\ pending' = NoPending
    /\ enhance_calls' = IF reply.ok THEN enhance_calls ELSE enhance_calls + 1
    /\ last' = [last EXCEPT !.reply = reply]
    /\ UNCHANGED <<sessionVars, cancel_requested, human_input, poll, final_handlers,
                   usage, file, flush_attempts, write_result,
                   emitted, probe>>

\* variant of append_enhanced: a failed enhancement drops the utterance
append_enhanced_drops(reply) ==
    /\ pending.active
    /\ conversation_log' =
          IF reply.ok
          THEN Append(conversation_log,
                      Entry("user", enhance_transcript(pending.text, reply)))
          ELSE conversation_log
    /\ pending' = NoPending
    /\ last' = [last EXCEPT !.reply = reply]
    /\ UNCHANGED <<sessionVars, cancel_requested, human_input, poll, final_handlers,
                   enhance_calls, usage, file, flush_attempts, write_result,
                   emitted, probe>>

\* agent.py:110-113, enhance_transcript returns and the entry is appended
append_enhanced(reply) ==
    /\ pending.active
    /\ conversation_log' =
          Append(conversation_log, Entry("user", enhance_transcript(pending.text, reply)))
    /\ pending' = NoPending
    /\ last' = [last EXCEPT !.reply = reply]
    /\ UNCHANGED <<sessionVars, cancel_requested, human_input, poll, final_handlers,
                   enhance_calls, usage, file, flush_attempts, write_result,
                   emitted, probe>>

\* variant of on_metrics_collected: the metrics are also written to the log
on_metrics_collected_logs(agent_metrics) ==
    /\ PipelineLive
    /\ EventLoopFree
    /\ "metrics_collected" \in handlers
    /\ usage' = TRUE
    /\ conversation_log' = Append(conversation_log, Entry("assistant", <<"a">>))
    /\ last' = [kind |-> "metrics", text |-> <<>>, reply |-> NoReply]
    /\ UNCHANGED <<sessionVars, cancel_requested, human_input, poll, final_handlers,
                   pending, enhance_calls, file, flush_attempts, write_result,
                   emitted, probe>>

\* agent.py:118-121
on_metrics_collected(agent_metrics) ==
    /\ PipelineLive
    /\ EventLoopFree
    /\ "metrics_collected" \in handlers
    /\ usage' = TRUE
    /\ last' = [kind |-> "metrics", text |-> <<>>, reply |-> NoReply]
    /\ UNCHANGED <<sessionVars, cancel_requested, human_input, poll, final_handlers,
                   conversation_log, pending, enhance_calls, file, flush_attempts, write_result,
                   emitted, probe>>

\* kinds of metrics the pipeline reports
MetricsPayloads == {"stt", "llm", "tts"}

\* ------------------------------------------------------------ specification
Next ==
    \/ \E ok \in BOOLEAN : Connect(ok)
    \/ ParticipantJoined
    \/ GreetingDone
    \/ RequestCancel
    \/ CancelBeforeRunning
    \/ CancelRunning
    \/ \E result \in WriteOutcomes : save_transcript(result)
    \/ HumanInputReady
    \/ PollCheck
    \/ PollWake
    \/ \E content \in Contents : handle_agent_transcript(content)
    \/ \E content \in Contents : handle_agent_interrupted(content)
    \/ \E data \in SpeechEvents : FinalTranscriptUnheard(data)
    \/ \E data \in SpeechEvents : handle_final_transcript(data)
    \/ \E reply \in Replies : append_enhanced(reply)
    \/ \E agent_metrics \in MetricsPayloads : on_metrics_collected(agent_metrics)

Spec == Init /\ [][Next]_vars

\* the polling task is scheduled fairly: its check runs when it is ready and
\* its sleep ends; the synchronous calls that hold the thread return
PollFairSpec ==
    /\ Spec
    /\ WF_vars(PollCheck)
    /\ WF_vars(PollWake)
    /\ WF_vars(\E result \in WriteOutcomes : save_transcript(result))
    /\ WF_vars(\E reply \in Replies : append_enhanced(reply))

\* ------------------------------------------- the normalization on its own
\* the contents the normalization is tried on
ProbeStrings == StringsOf(MaxProbeLen)

ProbeItems == [isstr : {TRUE}, val : ProbeStrings] \cup {NotAStr}

ProbeContents ==
    [type : {"str"}, val : ProbeStrings, items : {<<>>}]
    \cup [type : {"list"}, val : {<<>>},
          items : {<<>>} \cup
                  {<<first>> \o [i \in 1..k |-> NotAStr] :
                      first \in ProbeItems, k \in 0..(MaxItems - 1)}]
    \cup {NoContent}

NormInit ==
    /\ lifecycle = "Connecting"
    /\ outcome = "none"
    /\ cancel_requested = FALSE
    /\ participant = FALSE
    /\ handlers = {}
    /\ started = FALSE
    /\ greeting = "none"
    /\ human_input = FALSE
    /\ poll = "none"
    /\ final_handlers = 0
    /\ conversation_log = <<>>
    /\ pending = NoPending
    /\ enhance_calls = 0
    /\ usage = FALSE
    /\ file = PreviousFile
    /\ flush_attempts = 0
    /\ write_result = "none"
    /\ last = NoEvent
    /\ emitted = <<>>
    /\ probe \in ProbeContents

\* agent.py:70-77 applied to the probe
NormalizeCommitted ==
    /\ last' = [kind |-> "committed", text |-> transcript_committed(probe),
                reply |-> NoReply]
    /\ UNCHANGED <<sessionVars, cancel_requested, human_input, poll, final_handlers,
                   conversation_log, pending, enhance_calls, usage, file,
                   flush_attempts, write_result, emitted, probe>>

\* agent.py:87-93 applied to the probe
NormalizeInterrupted ==
    /\ last' = [kind |-> "interrupted", text |-> transcript_interrupted(probe),
                reply |-> NoReply]
    /\ UNCHANGED <<sessionVars, cancel_requested, human_input, poll, final_handlers,
                   conversation_log, pending, enhance_calls, usage, file,
                   flush_attempts, write_result, emitted, probe>>

NormNext == NormalizeCommitted \/ NormalizeInterrupted

NormSpec == NormInit /\ [][NormNext]_vars

\* asyncio runs every ready callback: a cancelled task is resumed, and the
\* synchronous calls (the enhancer, the write) return
FairSpec ==
    /\ Spec
    /\ SF_vars(CancelRunning)
    /\ SF_vars(CancelBeforeRunning)
    /\ WF_vars(\E result \in WriteOutcomes : save_transcript(result))
    /\ WF_vars(\E reply \in Replies : append_enhanced(reply))

\* ------------------------------------------------------------------ claims
LastEntry == conversation_log[Len(conversation_log)]

C2_CancelInRunningFlushesOnce ==
    /\ [][lifecycle = "Running" /\ lifecycle' # "Running"
            => lifecycle' = "Flushing" /\ flush_attempts' = flush_attempts]_vars
    /\ [][lifecycle = "Flushing" /\ lifecycle' # "Flushing"
            => lifecycle' = "Terminated" /\ flush_attempts' = flush_attempts + 1]_vars
    /\ [](greeting = "done" => flush_attempts = IF lifecycle = "Terminated" THEN 1 ELSE 0)
    /\ (lifecycle = "Running" /\ cancel_requested)
          ~> (lifecycle = "Terminated" /\ flush_attempts = 1)

\* the session was cancelled in Running and has terminated after one flush
C2_Witness ==
    /\ greeting = "done"
    /\ cancel_requested
    /\ lifecycle = "Terminated"
    /\ flush_attempts = 1

\* C3: whenever the session has terminated because of a cancellation, in
\* whichever lifecycle state the cancellation arrived, a flush of the log has
\* been attempted.
C3_FlushOnEveryCancelledExit ==
    lifecycle = "Terminated" /\ cancel_requested => flush_attempts >= 1

\* C4: a failure of the write during Flushing is not propagated: the session
\* is Terminated with a normal outcome, the write was attempted once and is
\* never attempted again, and Flushing leaves the in-memory log as it was.
C4_WriteFailureIsSwallowed ==
    /\ [](write_result \in {"open_fails", "dump_fails"}
            => lifecycle = "Terminated" /\ outcome = "normal" /\ flush_attempts = 1)
    /\ [][lifecycle = "Flushing" \/ write_result # "none"
            => conversation_log' = conversation_log]_vars

\* the write failed half way with a non-empty log
C4_Witness ==
    /\ write_result = "dump_fails"
    /\ lifecycle = "Terminated"
    /\ Len(conversation_log) > 0

\* C5: after a failed connection the session is over with an error outcome
\* and nothing else has happened or ever happens: no participant, no
\* pipeline, no handler, no polling task, no flush, an untouched log.
C5_ConnectFailureIsFatal ==
    outcome = "error" =>
        /\ lifecycle = "Terminated"
        /\ ~participant
        /\ ~started
        /\ greeting = "none"
        /\ handlers = {}
        /\ poll = "none"
        /\ final_handlers = 0
        /\ flush_attempts = 0
        /\ write_result = "none"
        /\ conversation_log = <<>>

\* the connection has failed
C5_Witness == outcome = "error" /\ lifecycle = "Terminated"

\* the position of a lifecycle state in the chain of the session controller
Rank(state) ==
    CASE state = "Connecting" -> 1
      [] state = "WaitingForParticipant" -> 2
      [] state = "PipelineStarting" -> 3
      [] state = "Running" -> 4
      [] state = "Flushing" -> 5
      [] state = "Terminated" -> 6

\* C6: the lifecycle only moves forward through Connecting,
\* WaitingForParticipant, PipelineStarting, Running, Flushing, Terminated:
\* every change of state goes to the next state of the chain, or ends the
\* session with an exception; Flushing is entered only from Running, the
\* pipeline is started only with a participant, and the greeting is issued
\* only on a started pipeline.
C6_LifecycleMovesForward ==
    /\ [][lifecycle' # lifecycle =>
            \/ Rank(lifecycle') = Rank(lifecycle) + 1
            \/ lifecycle' = "Terminated" /\ outcome' \in {"error", "cancelled"}]_vars
    /\ [][lifecycle' = "Flushing" /\ lifecycle # "Flushing" => lifecycle = "Running"]_vars
    /\ [](started => participant /\ Rank(lifecycle) >= 3)
    /\ [](greeting # "none" => started)
    /\ [](greeting = "done" => Rank(lifecycle) >= 4)

\* the whole chain has been walked
C6_Witness ==
    /\ lifecycle = "Terminated"
    /\ outcome = "normal"
    /\ started
    /\ greeting = "done"
    /\ flush_attempts = 1

\* C7: a committed event whose normalized text t is non-empty appends exactly
\* {assistant, "", t}; an interrupted event whose normalized text t is
\* non-empty appends exactly {assistant, "", t + " [interrupted]"}; the
\* committed handler adds no suffix.  (last'.text is the normalized text of
\* the event the step handles.)
C7_AssistantEntries ==
    [][(last' # last \/ conversation_log' # conversation_log) =>
          /\ last'.kind = "committed" =>
                conversation_log' =
                    IF last'.text # <<>>
                    THEN Append(conversation_log,
                            [role |-> "assistant", timestamp |-> <<>>, text |-> last'.text])
                    ELSE conversation_log
          /\ last'.kind = "interrupted" =>
                conversation_log' =
                    IF last'.text # <<>>
                    THEN Append(conversation_log,
                            [role |-> "assistant", timestamp |-> <<>>,
                             text |-> last'.text \o <<" ", "[interrupted]">>])
                    ELSE conversation_log]_vars

\* a committed "a" followed by an interrupted "a"
C7_Witness ==
    /\ last.kind = "interrupted"
    /\ last.text = <<"a">>
    /\ Len(conversation_log) = 2
    /\ conversation_log[1].text = <<"a">>
    /\ conversation_log[2].text = <<"a", " ", "[interrupted]">>

\* C8: when the enhancement fails for a final transcript whose trimmed text
\* t is non-empty, exactly the entry {user, "", t} is appended and the
\* handler is over.
C8_EnhancerFailureKeepsRawText ==
    [][\A reply \in Replies :
          append_enhanced(reply) /\ ~reply.ok =>
             /\ pending.text # <<>>
             /\ conversation_log' = Append(conversation_log,
                    [role |-> "user", timestamp |-> <<>>, text |-> pending.text])
             /\ ~pending'.active]_vars

\* the service failed and the raw text is in the log
C8_Witness ==
    /\ last.kind = "final"
    /\ ~pending.active
    /\ ~last.reply.ok
    /\ last.text # <<>>
    /\ Len(conversation_log) > 0
    /\ LastEntry = [role |-> "user", timestamp |-> <<>>, text |-> last.text]

\* C9: when the service answers successfully, the text of the appended user
\* entry is the content of the first choice of the answer.
C9_EnhancedTextIsLogged ==
    last.kind = "final" /\ ~pending.active /\ last.text # <<>> /\ last.reply.ok
        => LastEntry.text = last.reply.content

\* C10: a metrics-collected event never changes the conversation log.
C10_MetricsLeaveLogAlone ==
    [][(\E m \in MetricsPayloads : on_metrics_collected(m))
          => conversation_log' = conversation_log]_vars

\* metrics were collected while the log had entries
C10_Witness ==
    /\ last.kind = "metrics"
    /\ usage
    /\ Len(conversation_log) > 0

\* the entry an emitted event with a non-empty text is to produce: the role
\* follows from the kind of the event
ExpectedEntry(event) ==
    [role |-> IF event.kind = "final" THEN "user" ELSE "assistant",
     timestamp |-> <<>>,
     text |-> IF event.kind = "interrupted"
              THEN event.text \o <<" ", "[interrupted]">>
              ELSE event.text]

\* C11: the conversation log is exactly the sequence of the entries of the
\* events with a non-empty text, in the order the pipeline emitted them, each
\* with the role of its kind of event; the entry of a final transcript that
\* is still inside the enhancer is the only one that may be missing.
C11_LogFollowsEmissionOrder ==
    /\ Len(conversation_log) = Len(emitted) - (IF pending.active THEN 1 ELSE 0)
    /\ \A i \in 1..Len(conversation_log) :
          conversation_log[i] = ExpectedEntry(emitted[i])

\* a committed utterance, then a user utterance: two entries in that order
C11_Witness ==
    /\ Len(emitted) = 2
    /\ emitted[1].kind = "committed"
    /\ emitted[2].kind = "final"
    /\ ~pending.active
    /\ conversation_log = <<Entry("assistant", emitted[1].text),
                            Entry("user", emitted[2].text)>>

\* strings of blanks only, the empty string included
BlankStrings == {str \in Strings : \A i \in 1..Len(str) : str[i] = " "}

\* contents without a text: a blank string, an empty list, a list whose first
\* element is not a string or is blank, anything that is no string and no list
EmptyContents ==
    {c \in Contents :
        \/ c.type = "str" /\ c.val \in BlankStrings
        \/ c.type = "list" /\ c.items = <<>>
        \/ c.type = "list" /\ c.items # <<>> /\ ~c.items[1].isstr
        \/ c.type = "list" /\ c.items # <<>> /\ c.items[1].val \in BlankStrings
        \/ c.type = "other"}

\* speech events without a text: no alternatives, or a first alternative
\* without a text or with a blank one
EmptySpeechEvents ==
    {d \in SpeechEvents :
        \/ ~d.has_alternatives
        \/ d.alternatives = <<>>
        \/ d.alternatives # <<>> /\ ~d.alternatives[1].has_text
        \/ d.alternatives # <<>> /\ d.alternatives[1].is_none
        \/ d.alternatives # <<>> /\ d.alternatives[1].text \in BlankStrings}

\* every content and every speech event without a text is normalised to the
\* empty text by the handler that receives it
EmptyEventsHaveNoText ==
    /\ \A c \in EmptyContents :
          transcript_committed(c) = <<>> /\ transcript_interrupted(c) = <<>>
    /\ \A d \in EmptySpeechEvents : transcript_final(d) = <<>>

\* C12: the log is append-only and an event appends at most one entry: every
\* step keeps the existing entries where they are and adds at most one at the
\* end; a step that adds one, or that reaches the enhancer, handles an event
\* whose text is not empty, and every event with an empty text (blank string,
\* empty list, first element not a string, no alternatives) has the empty text.
C12_AppendOnlyZeroOrOne ==
    /\ [][/\ Len(conversation_log') \in {Len(conversation_log), Len(conversation_log) + 1}
          /\ SubSeq(conversation_log', 1, Len(conversation_log)) = conversation_log]_vars
    /\ [][conversation_log' # conversation_log =>
             /\ last'.kind \in {"committed", "interrupted", "final"}
             /\ last'.text # <<>>]_vars
    /\ [][pending' # pending /\ pending'.active =>
             /\ last'.kind = "final"
             /\ last'.text = pending'.text
             /\ pending'.text # <<>>]_vars
    /\ [][last' # last /\ last'.text = <<>> =>
             /\ conversation_log' = conversation_log
             /\ pending' = pending
             /\ enhance_calls' = enhance_calls]_vars
    /\ []EmptyEventsHaveNoText

\* an event without a text was handled after an entry had been logged
C12_Witness ==
    /\ Len(conversation_log) = 1
    /\ last.kind \in {"interrupted", "final"}
    /\ last.text = <<>>
    /\ ~pending.active

\* C13: after a successful flush of a log of N entries the transcript file
\* is an array of exactly N objects, each with the keys role, timestamp and
\* text and the values of the log entry at the same position; nothing of the
\* previous file is left.
C13_FileHoldsTheLog ==
    write_result = "ok" =>
        /\ file.state = "complete"
        /\ Len(file.doc) = Len(conversation_log)
        /\ \A i \in 1..Len(conversation_log) :
              /\ DOMAIN file.doc[i] = {"role", "timestamp", "text"}
              /\ file.doc[i].role = conversation_log[i].role
              /\ file.doc[i].timestamp = conversation_log[i].timestamp
              /\ file.doc[i].text = conversation_log[i].text

\* a log of two entries was written over the file of the earlier run
C13_Witness ==
    /\ write_result = "ok"
    /\ lifecycle = "Terminated"
    /\ Len(conversation_log) = 2
    /\ Len(file.doc) = 2

\* C14: after a flush attempt, successful or failed, the file is either what
\* it was before the attempt or the whole serialized log, never an empty,
\* truncated or partial document.
C14_FileWrittenAtomically ==
    flush_attempts > 0 =>
        \/ file = PreviousFile
        \/ file = [state |-> "complete", doc |-> JsonDump(conversation_log)]

\* s without its leading and trailing blanks: the part of s that is left
\* when only blanks are cut off at both ends and that neither begins nor
\* ends with a blank
Trimmed(str) ==
    CHOOSE t \in StringsOf(Len(str)) :
        \E i \in 0..Len(str), j \in 0..Len(str) :
            /\ i + j <= Len(str)
            /\ t = SubSeq(str, i + 1, Len(str) - j)
            /\ \A k \in 1..i : str[k] = " "
            /\ \A k \in (Len(str) - j + 1)..Len(str) : str[k] = " "
            /\ t = <<>> \/ (t[1] # " " /\ t[Len(t)] # " ")

\* the normalized text of a content: the trimmed string, the trimmed first
\* element of a non-empty sequence when it is a string, the empty string
\* otherwise
UtteranceText(content) ==
    CASE content.type = "str" -> Trimmed(content.val)
      [] content.type = "list" /\ Len(content.items) > 0 /\ content.items[1].isstr ->
            Trimmed(content.items[1].val)
      [] OTHER -> <<>>

\* C15: for every content shape the normalization of the committed handler
\* and that of the interrupted handler both return the trimmed string, the
\* trimmed first element of a non-empty sequence when it is a string, and the
\* empty string otherwise.
C15_NormalizationByShape ==
    last.kind \in {"committed", "interrupted"} => last.text = UtteranceText(probe)

\* the interrupted handler trimmed the first element of a list
C15_Witness ==
    /\ last.kind = "interrupted"
    /\ probe.type = "list"
    /\ probe.items = <<[isstr |-> TRUE, val |-> <<" ", "a", " ">>]>>
    /\ last.text = <<"a">>

\* C16: the user final-transcript handler is bound only while the human-input
\* object exists and the pipeline has been started, and at most once in a
\* session.
C16_BoundOnceWhenReady ==
    /\ [](final_handlers \in {0, 1})
    /\ [](final_handlers > 0 => human_input /\ started /\ poll = "done")
    /\ [][final_handlers' # final_handlers =>
             human_input /\ started /\ final_handlers = 0 /\ final_handlers' = 1]_vars

\* the handler has been bound
C16_Witness ==
    /\ final_handlers = 1
    /\ human_input
    /\ started

\* C17: with the polling task scheduled fairly, once the human-input object
\* is there the handler is eventually bound; as long as it is not there the
\* polling task has neither ended nor bound anything.
C17_PollingBindsEventually ==
    /\ human_input ~> (final_handlers = 1 /\ poll = "done")
    /\ [](started /\ ~human_input =>
             final_handlers = 0 /\ poll \in {"checking", "sleeping"})

\* the handler was bound after final transcripts had gone unheard
C17_Witness ==
    /\ poll = "done"
    /\ final_handlers = 1
    /\ last.kind = "final_unheard"

\* C18: while the user final-transcript handler is between its test and its
\* append, the only step is the end of that handler: it appends the user
\* entry, and no other handler, the idle loop, the polling task or the
\* cancellation has moved.
C18_HandlersDoNotInterleave ==
    [][pending.active =>
          /\ ~pending'.active
          /\ Len(conversation_log') = Len(conversation_log) + 1
          /\ SubSeq(conversation_log', 1, Len(conversation_log)) = conversation_log
          /\ conversation_log'[Len(conversation_log')].role = "user"
          /\ last'.kind = "final"
          /\ UNCHANGED <<sessionVars, cancel_requested, human_input, poll,
                         final_handlers, usage, file, flush_attempts, write_result,
                         emitted, enhance_calls>>]_vars

\* the handler is inside the enhancer while a cancellation is waiting
C18_Witness ==
    /\ pending.active
    /\ cancel_requested
    /\ lifecycle = "Running"

\* the user entries of the log
UserEntries == {i \in 1..Len(conversation_log) : conversation_log[i].role = "user"}

\* C19: the enhancer is called once for each handled final transcript with a
\* non-empty text and never for an empty one, and nothing is tried twice: a
\* call that has returned is not repeated, the transcript is written at most
\* once and Connecting is never entered again.
C19_ExternalCallsAtMostOnce ==
    /\ [](enhance_calls = Cardinality(UserEntries) + (IF pending.active THEN 1 ELSE 0))
    /\ [][~pending.active /\ last'.kind = "final" /\ (last' # last \/ pending' # pending)
             => enhance_calls' = enhance_calls + (IF last'.text # <<>> THEN 1 ELSE 0)]_vars
    /\ [][enhance_calls' # enhance_calls =>
             /\ enhance_calls' = enhance_calls + 1
             /\ ~pending.active
             /\ last'.kind = "final"
             /\ last'.text # <<>>]_vars
    /\ [](flush_attempts \in {0, 1})
    /\ [][flush_attempts' # flush_attempts => lifecycle = "Flushing"]_vars
    /\ [][lifecycle # "Connecting" => lifecycle' # "Connecting"]_vars

\* one utterance went through the enhancer and an empty one came after it
C19_Witness ==
    /\ enhance_calls = 1
    /\ last.kind = "final"
    /\ last.text = <<>>
    /\ Len(conversation_log) = 1
    /\ conversation_log[1].role = "user"

\* C20: the session runs, flushes and terminates whether or not the user
\* handler is bound; as long as it is not bound no final transcript is
\* enhanced or logged, and neither an unheard transcript nor the later binding
\* adds anything to the log.
C20_UnboundTranscriptsAreLost ==
    /\ [](final_handlers = 0 =>
             UserEntries = {} /\ ~pending.active /\ enhance_calls = 0)
    /\ [][last'.kind = "final_unheard" =>
             /\ conversation_log' = conversation_log
             /\ pending' = pending
             /\ emitted' = emitted]_vars
    /\ [][final_handlers' # final_handlers =>
             /\ conversation_log' = conversation_log
             /\ pending' = pending
             /\ enhance_calls' = enhance_calls]_vars

\* the session greeted, ran, flushed and terminated with the handler unbound
\* and a user utterance unheard
C20_Witness ==
    /\ lifecycle = "Terminated"
    /\ outcome = "normal"
    /\ greeting = "done"
    /\ write_result = "ok"
    /\ final_handlers = 0
    /\ last.kind = "final_unheard"
    /\ last.text # <<>>
    /\ UserEntries = {}

====
